---- MODULE Spec2Model ----
(***************************************************************************)
(* A model of volume_screener.py: the Streamlit script that parses a       *)
(* ticker list, calls the cached get_volume_data(ticker_list), sorts the   *)
(* rows by relative volume and styles them with highlight_spike.           *)
(*                                                                         *)
(* Numbers.  Volumes and prices are integers; a missing cell is NA.  An    *)
(* average, a ratio or a percentage is an exact fraction [num, den] in     *)
(* lowest terms with den > 0, and NaN is the fraction 0/0.  The slider     *)
(* value is held in tenths (15 is 1.5).                                    *)
(***************************************************************************)
EXTENDS Integers, Sequences, FiniteSets

\* ------------------------------------------------------------ bounds
\* The largest volume of a bar in the frames the batch runs draw.
MaxVol == 2
\* The longest cleaned series of the single-ticker calculator runs.
MaxBars == 22
\* The last second the clock of the application runs reaches.
MaxClock == 100
\* The largest RVol, in tenths, of the rows the styling runs draw.
MaxRVolTenths == 101

\* ------------------------------------------------------------ program constants
\* @st.cache_data(ttl=60)
TTL == 60
\* st.sidebar.slider("Highlight RVol Threshold", 1.0, 5.0, 1.5, 0.1), in tenths
SliderMin == 10
SliderMax == 50
SliderDefault == 15

\* ------------------------------------------------------------ numbers
NA == -1
NaN == [num |-> 0, den |-> 0]

Abs(x) == IF x < 0 THEN -x ELSE x
Min(a, b) == IF a < b THEN a ELSE b
Max(a, b) == IF a > b THEN a ELSE b

RECURSIVE GCD(_, _)
GCD(a, b) == IF b = 0 THEN a ELSE GCD(b, a % b)

\* n / d for d > 0, in lowest terms.
Rat(n, d) ==
    LET g == GCD(Abs(n), d)
    IN  [num |-> n \div g, den |-> d \div g]

IsNaN(x) == x.den = 0
\* x > 0 as Python evaluates it: False for NaN.
GtZero(x) == ~IsNaN(x) /\ x.num > 0
\* a > b for two fractions, False when either is NaN.
RatGt(a, b) == ~IsNaN(a) /\ ~IsNaN(b) /\ a.num * b.den > b.num * a.den

RECURSIVE SumSeq(_)
SumSeq(s) == IF s = <<>> THEN 0 ELSE Head(s) + SumSeq(Tail(s))

\* ------------------------------------------------------------ pandas
\* A row of a frame: the Volume and Close cells (NA: empty).
Bar(v, c) == [Volume |-> v, Close |-> c]
NaNRow == Bar(NA, NA)

\* Python's s[start:stop] for a sequence (0-based, negative from the end).
PySlice(s, start, stop) ==
    LET n  == Len(s)
        lo == IF start < 0 THEN Max(start + n, 0) ELSE Min(start, n)
        hi == IF stop < 0 THEN Max(stop + n, 0) ELSE Min(stop, n)
    IN  IF hi <= lo THEN <<>> ELSE SubSeq(s, lo + 1, hi)

\* Whether s.iloc[k] exists (otherwise IndexError).
ILocOk(s, k) == IF k < 0 THEN -k <= Len(s) ELSE k < Len(s)
ILoc(s, k) == IF k < 0 THEN s[Len(s) + k + 1] ELSE s[k + 1]

\* Series.mean(): NaN cells are skipped; NaN when nothing is left.
Mean(vals) ==
    LET kept == SelectSeq(vals, LAMBDA v : v # NA)
    IN  IF kept = <<>> THEN NaN ELSE Rat(SumSeq(kept), Len(kept))

Column(stock, col) ==
    [k \in 1..Len(stock) |-> IF col = "Volume" THEN stock[k].Volume ELSE stock[k].Close]

\* stock_df.dropna(how='all')
DropNaAll(stock) == SelectSeq(stock, LAMBDA r : ~(r.Volume = NA /\ r.Close = NA))

\* ------------------------------------------------------------ ticker_input
\* A text is a sequence of one-character strings.
Upper(c) ==
    CASE c = "a" -> "A" [] c = "b" -> "B" [] c = "c" -> "C" [] OTHER -> c

\* str.upper()
StrUpper(s) == [k \in 1..Len(s) |-> Upper(s[k])]

\* str.strip(), for the blank
RECURSIVE LStrip(_)
LStrip(s) == IF s # <<>> /\ Head(s) = " " THEN LStrip(Tail(s)) ELSE s
RECURSIVE RStrip(_)
RStrip(s) ==
    IF s # <<>> /\ s[Len(s)] = " " THEN RStrip(SubSeq(s, 1, Len(s) - 1)) ELSE s
StrStrip(s) == RStrip(LStrip(s))

\* str.split(","): the fields between the commas ("" gives one empty field).
RECURSIVE SplitComma(_)
SplitComma(s) ==
    IF \E k \in 1..Len(s) : s[k] = ","
    THEN LET k == CHOOSE j \in 1..Len(s) :
                      s[j] = "," /\ \A m \in 1..(j - 1) : s[m] # ","
         IN  <<SubSeq(s, 1, k - 1)>> \o SplitComma(SubSeq(s, k + 1, Len(s)))
    ELSE <<s>>

\* tickers = [x.strip().upper() for x in ticker_input.split(",") if x.strip()]
ParseTickers(text) ==
    LET fields == SelectSeq(SplitComma(text), LAMBDA x : StrStrip(x) # <<>>)
    IN  [k \in 1..Len(fields) |-> StrUpper(StrStrip(fields[k]))]

\* ------------------------------------------------------------ state
VARIABLES
    ticker_input,   \* the text of the sidebar's text area
    tickers,        \* the parsed ticker list
    vol_threshold,  \* the slider's value, in tenths
    refresh,        \* whether this run was triggered by the Refresh Data button
    now,            \* the clock, in seconds
    cache,          \* st.cache_data: ticker list -> [stamp, value, error]
    pc,             \* where the script run stands ("idle": between runs)
    downloads,      \* the arguments of the yf.download calls of this run
    df,             \* get_volume_data: the downloaded frame
    i,              \* get_volume_data: the loop's position in ticker_list
    data,           \* get_volume_data: the rows appended so far
    stock_df,       \* loop body: the ticker's cleaned frame
    current_vol,    \* loop body
    current_price,  \* loop body
    avg_vol_20d,    \* loop body
    rvol,           \* loop body
    pct_change,     \* loop body
    results,        \* what get_volume_data returned to the script
    display,        \* the rows of the table shown, in order
    styles,         \* the style of the RVol cell of each row shown
    messages,       \* the notices shown by this run (error, warning, info)
    raised          \* the exception that ended this run, or "none"

vars == <<ticker_input, tickers, vol_threshold, refresh, now, cache, pc, downloads,
          df, i, data, stock_df, current_vol, current_price, avg_vol_20d, rvol,
          pct_change, results, display, styles, messages, raised>>

inputs == <<ticker_input, tickers, vol_threshold, refresh>>
locals == <<stock_df, current_vol, current_price, avg_vol_20d, rvol, pct_change>>
shown == <<display, styles>>

NoFrame == [shape |-> "none"]
FlatFrame(stock) == [shape |-> "flat", frame |-> stock]
MultiFrame(cols) == [shape |-> "multi", cols |-> cols]

\* The loop body's names before they are bound.
LocalsUnbound ==
    /\ stock_df = <<>>
    /\ current_vol = NA
    /\ current_price = NA
    /\ avg_vol_20d = NaN
    /\ rvol = NaN
    /\ pct_change = NaN

LocalsUnbound_next ==
    /\ stock_df' = <<>>
    /\ current_vol' = NA
    /\ current_price' = NA
    /\ avg_vol_20d' = NaN
    /\ rvol' = NaN
    /\ pct_change' = NaN

\* ------------------------------------------------------------ get_volume_data
\* numpy's v / a for a volume v and a fraction a: no exception on a zero divisor.
Inf == [num |-> 1, den |-> 0]
Divide(v, a) ==
    IF IsNaN(a) \/ v = NA THEN NaN
    ELSE IF a.num = 0 THEN (IF v = 0 THEN NaN ELSE Inf)
    ELSE Rat(v * a.den, a.num)

\* if len(ticker_list) > 1: stock_df = df[ticker] else: stock_df = df
\* (ok is FALSE when df[ticker] raises KeyError)
SelectStock(ticker_list, ticker, frame) ==
    IF Len(ticker_list) > 1
    THEN IF ticker \in DOMAIN frame.cols
         THEN [ok |-> TRUE, stock |-> frame.cols[ticker]]
         ELSE [ok |-> FALSE, stock |-> <<>>]
    ELSE [ok |-> TRUE, stock |-> frame.frame]

\* if stock_df.empty: continue
SkipsEmpty_keep(stock) == FALSE
SkipsEmpty(stock) == stock = <<>>

\* stock_df['Volume'].iloc[-21:-1].mean()
AvgVol20d_today(stock) == Mean(PySlice(Column(stock, "Volume"), -20, Len(stock)))
AvgVol20d(stock) == Mean(PySlice(Column(stock, "Volume"), -21, -1))

\* if avg_vol_20d > 0: rvol = current_vol / avg_vol_20d else: rvol = 0
RelativeVolume_unguarded(vol, avg) == Divide(vol, avg)
RelativeVolume(vol, avg) == IF GtZero(avg) THEN Divide(vol, avg) ELSE Rat(0, 1)

\* ((current_price - prev_close) / prev_close) * 100
PctChange(price, prev) == Rat((price - prev) * 100, prev)

MetricsRow(ticker, price, change, vol, avg, rv) ==
    [Ticker |-> ticker, Price |-> price, Change |-> change, CurrentVol |-> vol,
     AvgVol20D |-> avg, RVol |-> rv]

\* ------------------------------------------------------------ st.cache_data
EmptyCache == [k \in {} |-> NaN]

\* An entry answers a call until it is ttl seconds old.
IsFresh_never(c, key, t) == FALSE
IsFresh(c, key, t) == key \in DOMAIN c /\ t - c[key].stamp < TTL

\* The return value of a call is kept with the time of the call; error is whether
\* the call showed st.error, which a later hit shows again.
Memoize_rows(c, key, t, value, error) ==
    IF value = <<>> THEN c
    ELSE [k \in DOMAIN c \cup {key} |->
             IF k = key THEN [stamp |-> t, value |-> value, error |-> error] ELSE c[k]]
Memoize(c, key, t, value, error) ==
    [k \in DOMAIN c \cup {key} |->
        IF k = key THEN [stamp |-> t, value |-> value, error |-> error] ELSE c[k]]

\* if st.button("Refresh Data"): st.cache_data.clear()
AfterButton_kept(c, pressed) == c
AfterButton(c, pressed) == IF pressed THEN EmptyCache ELSE c

\* ------------------------------------------------------------ display
\* Whether row a must come before row b in descending RVol order (NaN last).
ComesBefore(a, b) ==
    \/ ~IsNaN(a.RVol) /\ IsNaN(b.RVol)
    \/ RatGt(a.RVol, b.RVol)

Orderings(n) == {f \in [1..n -> 1..n] : \A a, b \in 1..n : a # b => f[a] # f[b]}

\* results.sort_values(by="RVol", ascending=False): the default kind, quicksort,
\* is not stable, so the outcome is any ordering of the rows that descends.
SortOutcomes_ascending(rows) ==
    {[k \in 1..Len(rows) |-> rows[f[k]]] : f \in
        {g \in Orderings(Len(rows)) :
            \A k \in 1..(Len(rows) - 1) : ~ComesBefore(rows[g[k]], rows[g[k + 1]])}}
SortOutcomes(rows) ==
    {[k \in 1..Len(rows) |-> rows[f[k]]] : f \in
        {g \in Orderings(Len(rows)) :
            \A k \in 1..(Len(rows) - 1) : ~ComesBefore(rows[g[k + 1]], rows[g[k]])}}

\* val > x for a fraction val and x in tenths
GtTenths(val, x) == ~IsNaN(val) /\ val.num * 10 > x * val.den
GeTenths(val, x) == ~IsNaN(val) /\ val.num * 10 >= x * val.den

highlight_spike_inclusive(val, threshold) ==
    LET color == IF GeTenths(val, threshold) THEN "lightgreen" ELSE "white"
    IN  [background |-> IF GeTenths(val, threshold * 2) THEN "#ffcccb" ELSE color,
         color |-> "black"]
highlight_spike(val, threshold) ==
    LET color == IF GtTenths(val, threshold) THEN "lightgreen" ELSE "white"
    IN  [background |-> IF GtTenths(val, threshold * 2) THEN "#ffcccb" ELSE color,
         color |-> "black"]

\* ------------------------------------------------------------ the script run
\* A rerun of the script: the widgets are read and the ticker list parsed.
Rerun(texts, sliders) ==
    /\ pc = "idle"
    /\ \E text \in texts, t \in sliders, pressed \in BOOLEAN :
          /\ ticker_input' = text
          /\ tickers' = ParseTickers(text)
          /\ vol_threshold' = t
          /\ refresh' = pressed
    /\ pc' = "button"
    /\ downloads' = <<>>
    /\ results' = <<>>
    /\ display' = <<>>
    /\ styles' = <<>>
    /\ messages' = {}
    /\ raised' = "none"
    /\ UNCHANGED <<now, cache, df, i, data, locals>>

\* Time passes between two runs.
Tick(steps) ==
    /\ pc = "idle"
    /\ \E d \in steps : now + d <= MaxClock /\ now' = now + d
    /\ UNCHANGED <<inputs, cache, pc, downloads, df, i, data, locals, results, shown,
                   messages, raised>>

\* if st.button("Refresh Data"): st.cache_data.clear()
Button ==
    /\ pc = "button"
    /\ cache' = AfterButton(cache, refresh)
    /\ pc' = "main"
    /\ UNCHANGED <<inputs, now, downloads, df, i, data, locals, results, shown,
                   messages, raised>>

\* if tickers: ... else: st.info("Enter tickers in the sidebar to begin.")
Main ==
    /\ pc = "main"
    /\ IF tickers # <<>>
       THEN pc' = "call" /\ messages' = messages
       ELSE pc' = "idle" /\ messages' = messages \cup {"info"}
    /\ UNCHANGED <<inputs, now, cache, downloads, df, i, data, locals, results, shown,
                   raised>>

\* results = get_volume_data(tickers): answered from the cache, or the body runs.
Call ==
    /\ pc = "call"
    /\ IF IsFresh(cache, tickers, now)
       THEN /\ results' = cache[tickers].value
            /\ messages' = messages \cup (IF cache[tickers].error THEN {"error"} ELSE {})
            /\ pc' = "render"
       ELSE /\ pc' = "download"
            /\ UNCHANGED <<results, messages>>
    /\ UNCHANGED <<inputs, now, cache, downloads, df, i, data, locals, shown, raised>>

\* try: df = yf.download(ticker_list, ...) except Exception: st.error; return empty
Download_propagates(frames) ==
    /\ pc = "download"
    /\ downloads' = Append(downloads, tickers)
    /\ \/ /\ raised' = "Exception"
          /\ pc' = "idle"
          /\ UNCHANGED <<df, i, data, messages, results, cache>>
       \/ /\ df' \in frames
          /\ i' = 1
          /\ data' = <<>>
          /\ pc' = "loop"
          /\ UNCHANGED <<messages, results, cache, raised>>
    /\ UNCHANGED <<inputs, now, locals, shown>>
Download(frames) ==
    /\ pc = "download"
    /\ downloads' = Append(downloads, tickers)
    /\ \/ /\ messages' = messages \cup {"error"}
          /\ results' = <<>>
          /\ cache' = Memoize(cache, tickers, now, <<>>, TRUE)
          /\ pc' = "render"
          /\ UNCHANGED <<df, i, data>>
       \/ /\ df' \in frames
          /\ i' = 1
          /\ data' = <<>>
          /\ pc' = "loop"
          /\ UNCHANGED <<messages, results, cache>>
    /\ UNCHANGED <<inputs, now, locals, shown, raised>>

\* for ticker in ticker_list: select the ticker's frame, clean it, skip it if empty
Select ==
    /\ pc = "loop"
    /\ i <= Len(tickers)
    /\ LET sel == SelectStock(tickers, tickers[i], df)
           cleaned == DropNaAll(sel.stock)
       IN  IF ~sel.ok \/ SkipsEmpty(cleaned)
           THEN i' = i + 1 /\ pc' = "loop" /\ stock_df' = <<>>
           ELSE i' = i /\ pc' = "latest" /\ stock_df' = cleaned
    /\ UNCHANGED <<inputs, now, cache, downloads, df, data, current_vol, current_price,
                   avg_vol_20d, rvol, pct_change, results, shown, messages, raised>>

\* latest_day = stock_df.iloc[-1]; current_vol, current_price
Latest ==
    /\ pc = "latest"
    /\ IF ILocOk(stock_df, -1)
       THEN /\ current_vol' = ILoc(stock_df, -1).Volume
            /\ current_price' = ILoc(stock_df, -1).Close
            /\ pc' = "avg"
            /\ UNCHANGED <<df, i, data, stock_df, avg_vol_20d, rvol, pct_change, raised>>
       ELSE /\ raised' = "IndexError"
            /\ pc' = "idle"
            /\ df' = NoFrame
            /\ i' = 0
            /\ data' = <<>>
            /\ LocalsUnbound_next
    /\ UNCHANGED <<inputs, now, cache, downloads, results, shown, messages>>

AvgVol ==
    /\ pc = "avg"
    /\ avg_vol_20d' = AvgVol20d(stock_df)
    /\ pc' = "rvol"
    /\ UNCHANGED <<inputs, now, cache, downloads, df, i, data, stock_df, current_vol,
                   current_price, rvol, pct_change, results, shown, messages, raised>>

RVol ==
    /\ pc = "rvol"
    /\ rvol' = RelativeVolume(current_vol, avg_vol_20d)
    /\ pc' = "pct"
    /\ UNCHANGED <<inputs, now, cache, downloads, df, i, data, stock_df, current_vol,
                   current_price, avg_vol_20d, pct_change, results, shown, messages,
                   raised>>

\* prev_close = stock_df['Close'].iloc[-2]: IndexError on a one-row frame, which
\* "except KeyError" does not catch: it leaves get_volume_data and ends the run.
Pct ==
    /\ pc = "pct"
    /\ IF ILocOk(Column(stock_df, "Close"), -2)
       THEN /\ pct_change' = PctChange(current_price, ILoc(Column(stock_df, "Close"), -2))
            /\ pc' = "append"
            /\ UNCHANGED <<df, i, data, stock_df, current_vol, current_price,
                           avg_vol_20d, rvol, raised>>
       ELSE /\ raised' = "IndexError"
            /\ pc' = "idle"
            /\ df' = NoFrame
            /\ i' = 0
            /\ data' = <<>>
            /\ LocalsUnbound_next
    /\ UNCHANGED <<inputs, now, cache, downloads, results, shown, messages>>

\* data.append({...})
AppendRow ==
    /\ pc = "append"
    /\ data' = Append(data, MetricsRow(tickers[i], current_price, pct_change,
                                        current_vol, avg_vol_20d, rvol))
    /\ i' = i + 1
    /\ pc' = "loop"
    /\ LocalsUnbound_next
    /\ UNCHANGED <<inputs, now, cache, downloads, df, results, shown, messages, raised>>

\* return pd.DataFrame(data), which the cache keeps
Return ==
    /\ pc = "loop"
    /\ i > Len(tickers)
    /\ results' = data
    /\ cache' = Memoize(cache, tickers, now, data, FALSE)
    /\ pc' = "render"
    /\ df' = NoFrame
    /\ i' = 0
    /\ data' = <<>>
    /\ UNCHANGED <<inputs, now, downloads, locals, shown, messages, raised>>

\* if not results.empty: sort, style and show the table; else st.warning
Render ==
    /\ pc = "render"
    /\ IF results # <<>>
       THEN /\ display' \in SortOutcomes(results)
            /\ styles' = [k \in 1..Len(results) |->
                             highlight_spike(display'[k].RVol, vol_threshold)]
            /\ messages' = messages
       ELSE /\ messages' = messages \cup {"warning"}
            /\ UNCHANGED shown
    /\ pc' = "idle"
    /\ UNCHANGED <<inputs, now, cache, downloads, df, i, data, locals, results, raised>>

\* ------------------------------------------------------------ inputs
\* What yf.download can answer for a ticker list, each ticker's frame drawn from
\* `series`: one frame with a column group per ticker (a ticker may be absent)
\* for several tickers, the ticker's own frame for one.
TickerSet(ticker_list) == {ticker_list[k] : k \in 1..Len(ticker_list)}
Frames(ticker_list, series) ==
    IF Len(ticker_list) > 1
    THEN {MultiFrame(f) : f \in UNION {[S -> series] : S \in SUBSET TickerSet(ticker_list)}}
    ELSE {FlatFrame(stock) : stock \in series}

\* The application runs: a few texts, a short history per ticker.
AppTexts == {<<>>, <<"a">>, <<"a", ",", " ", "b">>}
AppSliders == {SliderDefault}
AppTicks == {20, 40}
AppSeries == {<<>>, <<Bar(1, 2)>>, <<Bar(1, 2), Bar(2, 3)>>}

\* The batch runs: up to three tickers, histories of up to two bars with empty
\* rows among them.
BatchTexts ==
    {<<" ", ",">>, <<"a">>, <<"a", ",", " ", "B">>, <<"a", ",", "A">>,
     <<" ", "b", ",", ",", "A", ",", "c", " ">>}
BatchSeries ==
    {<<>>, <<NaNRow>>, <<Bar(1, 2)>>}
    \cup {<<Bar(a, 2), Bar(b, 3)>> : a, b \in 0..MaxVol}
    \cup {<<NaNRow, Bar(a, 2), Bar(a, 1), NaNRow>> : a \in 0..MaxVol}

\* The calculator runs: one ticker, a history of n bars of volume v0 but for
\* bar p, of volume v1, with an empty row before it, after it, or nowhere.
ShapedSeries(n, p, v0, v1, e, close) ==
    LET bars == [k \in 1..n |->
                    Bar(IF k = p THEN v1 ELSE v0, IF k = n THEN close ELSE 2)]
    IN  CASE e = 0 -> bars
          [] e = 1 -> <<NaNRow>> \o bars
          [] e = 2 -> bars \o <<NaNRow>>
CalcSeries ==
    {<<>>, <<NaNRow>>}
    \cup {ShapedSeries(n, p, v0, v1, e, c) :
            n \in 1..MaxBars, p \in 1..MaxBars, v0 \in 0..1, v1 \in 0..MaxVol,
            e \in 0..2, c \in {1, 3}}
CalcTexts == {<<"a">>}

\* The styling runs: one row of every RVol in tenths, every slider position.
StyledRow(n) == MetricsRow(<<"A">>, 2, Rat(0, 1), n, Rat(10, 1), Rat(n, 10))

\* ------------------------------------------------------------ specifications
TypeStart ==
    /\ now = 0
    /\ cache = EmptyCache
    /\ downloads = <<>>
    /\ df = NoFrame
    /\ i = 0
    /\ data = <<>>
    /\ LocalsUnbound
    /\ results = <<>>
    /\ display = <<>>
    /\ styles = <<>>
    /\ messages = {}
    /\ raised = "none"

\* Before the first run of the script.
Init ==
    /\ ticker_input = <<>>
    /\ tickers = <<>>
    /\ vol_threshold = SliderDefault
    /\ refresh = FALSE
    /\ pc = "idle"
    /\ TypeStart

AppRerun == Rerun(AppTexts, AppSliders)
AppTick == Tick(AppTicks)
AppDownload == Download(Frames(tickers, AppSeries))

Next ==
    \/ AppRerun
    \/ AppTick
    \/ Button
    \/ Main
    \/ Call
    \/ AppDownload
    \/ Select
    \/ Latest
    \/ AvgVol
    \/ RVol
    \/ Pct
    \/ AppendRow
    \/ Return
    \/ Render

Spec == Init /\ [][Next]_vars

\* One run of the script on a text of `texts`, the widgets just read.
InitRun(texts) ==
    /\ ticker_input \in texts
    /\ tickers = ParseTickers(ticker_input)
    /\ vol_threshold = SliderDefault
    /\ refresh = FALSE
    /\ pc = "button"
    /\ TypeStart

InitBatch == InitRun(BatchTexts)
BatchDownload == Download(Frames(tickers, BatchSeries))
NextBatch ==
    \/ Button
    \/ Main
    \/ Call
    \/ BatchDownload
    \/ Select
    \/ Latest
    \/ AvgVol
    \/ RVol
    \/ Pct
    \/ AppendRow
    \/ Return
    \/ Render
SpecBatch == InitBatch /\ [][NextBatch]_vars

InitCalc == InitRun(CalcTexts)
CalcDownload == Download(Frames(tickers, CalcSeries))
NextCalc ==
    \/ Button
    \/ Main
    \/ Call
    \/ CalcDownload
    \/ Select
    \/ Latest
    \/ AvgVol
    \/ RVol
    \/ Pct
    \/ AppendRow
    \/ Return
    \/ Render
SpecCalc == InitCalc /\ [][NextCalc]_vars

\* A run about to show the one row get_volume_data returned.
InitHighlight ==
    /\ ticker_input = <<"a">>
    /\ tickers = ParseTickers(ticker_input)
    /\ vol_threshold \in SliderMin..SliderMax
    /\ refresh = FALSE
    /\ pc = "render"
    /\ now = 0
    /\ \E n \in 0..MaxRVolTenths :
          /\ results = <<StyledRow(n)>>
          /\ cache = Memoize(EmptyCache, tickers, 0, results, FALSE)
    /\ downloads = <<tickers>>
    /\ df = NoFrame
    /\ i = 0
    /\ data = <<>>
    /\ LocalsUnbound
    /\ display = <<>>
    /\ styles = <<>>
    /\ messages = {}
    /\ raised = "none"
NextHighlight == Render
SpecHighlight == InitHighlight /\ [][NextHighlight]_vars

\* ------------------------------------------------------------ claims: helpers
\* The frame the download holds for the k-th ticker of the list (none: no rows),
\* and its bars: the rows that are not wholly empty.
RawStock(k) ==
    IF Len(tickers) > 1
    THEN IF tickers[k] \in DOMAIN df.cols THEN df.cols[tickers[k]] ELSE <<>>
    ELSE df.frame
BarsOf(k) == SelectSeq(RawStock(k), LAMBDA r : r # NaNRow)
Skipped(k) == BarsOf(k) = <<>>

RECURSIVE VolumeSum(_, _, _)
VolumeSum(bars, lo, hi) ==
    IF lo > hi THEN 0 ELSE bars[lo].Volume + VolumeSum(bars, lo + 1, hi)

InBody == pc \in {"latest", "avg", "rvol", "pct", "append"}

\* ------------------------------------------------------------ C1
\* The mean of the volumes of the w = min(20, n - 1) bars before the latest of n.
PriorMean(bars) ==
    LET n == Len(bars)
        w == Min(20, n - 1)
    IN  Rat(VolumeSum(bars, n - w, n - 1), w)

\* C1: for a cleaned series of n >= 2 bars, the 20-day average volume, as computed
\* and as emitted in the row, is the arithmetic mean of the volumes of exactly the
\* min(20, n-1) bars immediately before the latest bar; the latest bar's volume
\* is not part of it, and for n >= 21 the window is exactly 20 bars.
C1_AverageWindow ==
    /\ (pc \in {"rvol", "pct", "append"} /\ Len(stock_df) >= 2)
          => avg_vol_20d = PriorMean(stock_df)
    /\ (pc = "loop" /\ data # <<>> /\ df.shape = "flat")
          => /\ Len(BarsOf(1)) >= 2
             /\ data[1].AvgVol20D = PriorMean(BarsOf(1))

\* A row emitted for 22 bars where the bar just outside the window, and the
\* latest bar, differ in volume from the bars of the window.
C1_Witness ==
    /\ pc = "loop"
    /\ data # <<>>
    /\ df.shape = "flat"
    /\ Len(BarsOf(1)) = 22
    /\ BarsOf(1)[1].Volume # BarsOf(1)[2].Volume
    /\ data[1].AvgVol20D = Rat(1, 1)

\* ------------------------------------------------------------ C2
\* C2: when the 20-day average is zero or undefined the relative volume is 0,
\* otherwise it is the latest volume divided by the average; no row carries a
\* NaN or infinite relative volume, and no division error ends the run.
C2_RelativeVolume ==
    /\ pc \in {"pct", "append"} =>
          IF IsNaN(avg_vol_20d) \/ avg_vol_20d.num = 0
          THEN rvol = [num |-> 0, den |-> 1]
          ELSE /\ rvol.den > 0
               /\ rvol.num * avg_vol_20d.num = current_vol * avg_vol_20d.den * rvol.den
    /\ \A k \in 1..Len(data) :
          /\ data[k].RVol.den > 0
          /\ data[k].AvgVol20D.den > 0
          /\ data[k].AvgVol20D.num = 0 => data[k].RVol.num = 0
    /\ raised # "ZeroDivisionError"

\* A row emitted with a positive latest volume over a zero average.
C2_Witness ==
    /\ pc = "loop"
    /\ data # <<>>
    /\ data[1].AvgVol20D = [num |-> 0, den |-> 1]
    /\ data[1].CurrentVol > 0
    /\ data[1].RVol = [num |-> 0, den |-> 1]

\* The other case of C2: one bar, the average undefined, the ratio set to 0.
C2_UndefinedAverage ==
    pc = "pct" /\ Len(stock_df) = 1 /\ IsNaN(avg_vol_20d) /\ rvol.num = 0 /\ rvol.den = 1

\* ------------------------------------------------------------ C3
\* C3: one bad ticker never aborts the batch: no exception ends the run, and a
\* ticker with exactly one bar still has its row, with an undefined percent
\* change, when the loop is through the list.
C3_OneBadTickerNeverAborts ==
    /\ raised = "none"
    /\ (pc = "loop" /\ i > Len(tickers)) =>
          \A k \in 1..Len(tickers) :
             Len(BarsOf(k)) = 1 =>
                \E j \in 1..Len(data) :
                   data[j].Ticker = tickers[k] /\ IsNaN(data[j].Change)

\* ------------------------------------------------------------ C4
\* The positions up to m of the tickers that have bars, in order.
RECURSIVE KeptUpTo(_)
KeptUpTo(m) ==
    IF m = 0 THEN <<>>
    ELSE IF Skipped(m) THEN KeptUpTo(m - 1) ELSE Append(KeptUpTo(m - 1), m)

\* The row of the k-th ticker, from its own bars alone.
OwnRow(k) ==
    LET bars == BarsOf(k)
        n == Len(bars)
    IN  MetricsRow(tickers[k], bars[n].Close,
                   IF n >= 2 THEN PctChange(bars[n].Close, bars[n - 1].Close) ELSE NaN,
                   bars[n].Volume, AvgVol20d(bars),
                   RelativeVolume(bars[n].Volume, AvgVol20d(bars)))

C4_RowsAreOwnRows ==
    pc = "loop" =>
        LET kept == KeptUpTo(i - 1)
        IN  /\ Len(data) = Len(kept)
            /\ \A j \in 1..Len(kept) : data[j] = OwnRow(kept[j])

C4_SkipStep ==
    (pc = "loop" /\ i <= Len(tickers) /\ Skipped(i))
        => (pc' = "loop" /\ i' = i + 1 /\ data' = data /\ raised' = raised
            /\ messages' = messages)

\* C4: a ticker absent from the download, or with no row left after the empty
\* rows are dropped, adds no row and raises no error, and the rows are, in
\* order, the rows of the other tickers, each computed from its own bars: what
\* the list without the skipped ticker gives.
C4_SkipSemantics == [](C4_RowsAreOwnRows) /\ [][C4_SkipStep]_vars

\* The list A, B with a history for A and only empty rows, or nothing, for B:
\* the loop ends with exactly the row of A.
C4_Witness ==
    /\ pc = "loop"
    /\ Len(tickers) = 2
    /\ i = 3
    /\ Len(BarsOf(1)) >= 2
    /\ Skipped(2)
    /\ Len(data) = 1
    /\ data[1].Ticker = <<"A">>

\* ------------------------------------------------------------ C5
Count(rows, r) == Cardinality({k \in 1..Len(rows) : rows[k] = r})
IsPermutationOf(a, b) ==
    /\ Len(a) = Len(b)
    /\ \A k \in 1..Len(a) : Count(a, a[k]) = Count(b, a[k])
NonIncreasing(rows) ==
    \A k \in 1..(Len(rows) - 1) :
        rows[k].RVol.num * rows[k + 1].RVol.den >= rows[k + 1].RVol.num * rows[k].RVol.den

\* C5 as amended: the table shown is a permutation of the rows returned and
\* is non-increasing in RVol over the whole sequence.
C5_SortedPermutation ==
    display # <<>> => (IsPermutationOf(display, results) /\ NonIncreasing(display))

\* Three rows shown in an order that is not the order they were returned in.
C5_Witness ==
    /\ Len(display) = 3
    /\ display # results
    /\ display[1].RVol # display[3].RVol

\* C5 as written: moreover the sort is stable: rows of equal RVol are shown in
\* the order they were returned in (the order of the ticker list).
C5_StableSort ==
    display # <<>> =>
        \E f \in Orderings(Len(results)) :
            /\ display = [k \in 1..Len(results) |-> results[f[k]]]
            /\ NonIncreasing(display)
            /\ \A a, b \in 1..Len(results) :
                  (a < b /\ display[a].RVol = display[b].RVol) => f[a] < f[b]

\* ------------------------------------------------------------ C6
\* The tier of an RVol r under the threshold t (in tenths), from the claim.
Tier(r, t) ==
    IF r.num * 10 <= t * r.den THEN "white"
    ELSE IF r.num * 10 <= 2 * t * r.den THEN "lightgreen"
    ELSE "#ffcccb"

\* C6: the highlight of a row is decided by its RVol and the threshold T alone:
\* normal (white) for RVol <= T, elevated (light green) for T < RVol <= 2T,
\* spike (red) for RVol > 2T, for every T of the slider.
C6_HighlightTiers ==
    /\ vol_threshold \in SliderMin..SliderMax
    /\ Len(styles) = Len(display)
    /\ \A k \in 1..Len(styles) :
          styles[k] = [background |-> Tier(display[k].RVol, vol_threshold),
                       color |-> "black"]

\* A row shown at the boundary RVol = 2T, styled elevated.
C6_Witness ==
    /\ styles # <<>>
    /\ display[1].RVol.num * 10 = 2 * vol_threshold * display[1].RVol.den
    /\ styles[1].background = "lightgreen"

\* ------------------------------------------------------------ C7
\* The step at which yf.download raised: the call was made and no frame came.
DownloadRaised == pc = "download" /\ pc' # "loop"

C7_ErrorStep ==
    DownloadRaised =>
        /\ "error" \in messages'
        /\ results' = <<>>
        /\ raised' = "none"
        /\ pc' = "render"
        /\ i' = 0
        /\ data' = <<>>
        /\ df' = NoFrame

C7_ErrorShownMeansNoRows ==
    "error" \in messages =>
        /\ results = <<>>
        /\ display = <<>>
        /\ raised = "none"
        /\ ~InBody
        /\ pc # "loop"

\* C7: when the download raises, get_volume_data shows an error and returns an
\* empty result: the loop is not entered, no row is emitted or shown, and the
\* exception does not leave the function.
C7_FetchErrorContained == [](C7_ErrorShownMeansNoRows) /\ [][C7_ErrorStep]_vars

\* A run for two tickers that ended after a failed download: the error and the
\* "no data" warning shown, no table.
C7_Witness ==
    /\ pc = "idle"
    /\ Len(tickers) = 2
    /\ downloads = <<tickers>>
    /\ messages = {"error", "warning"}
    /\ display = <<>>
    /\ raised = "none"

\* ------------------------------------------------------------ C8
\* C8: in a run triggered by Refresh Data the cache is empty when
\* get_volume_data is called, so a run for a non-empty ticker list downloads
\* and never shows a result cached before the refresh.
C8_RefreshBypassesCache ==
    refresh =>
        /\ pc \in {"main", "call"} => cache = EmptyCache
        /\ (tickers # <<>> /\ pc \in {"download", "loop", "render", "idle"} \cup
               {"latest", "avg", "rvol", "pct", "append"})
              => (pc = "download" \/ downloads = <<tickers>>)
        /\ pc = "render" => (tickers \in DOMAIN cache /\ cache[tickers].stamp = now)

\* A refresh, later than the start, that downloaded and is about to show rows.
C8_Witness ==
    /\ refresh
    /\ pc = "render"
    /\ now > 0
    /\ downloads = <<tickers>>
    /\ results # <<>>

\* ------------------------------------------------------------ C9
C9_AtMostOneBatchedCall ==
    /\ Len(downloads) <= 1
    /\ \A k \in 1..Len(downloads) : downloads[k] = tickers
    /\ tickers = <<>> => (downloads = <<>> /\ "error" \notin messages /\ raised = "none")
    /\ (pc = "loop" \/ InBody) => downloads = <<tickers>>

C9_CachedStep ==
    (pc = "call" /\ tickers \in DOMAIN cache /\ now - cache[tickers].stamp < 60)
        => (pc' = "render" /\ downloads' = <<>> /\ results' = cache[tickers].value)

C9_EmptyInputStep ==
    (pc = "main" /\ tickers = <<>>)
        => (pc' = "idle" /\ downloads' = <<>> /\ messages' = {"info"})

\* C9: a run makes at most one download call, for the whole ticker list; none
\* when the list's result was cached less than 60 seconds ago and not cleared
\* by a refresh, and none, but a prompt, when the parsed list is empty.
C9_DownloadsPerRun ==
    [](C9_AtMostOneBatchedCall) /\ [][C9_CachedStep]_vars /\ [][C9_EmptyInputStep]_vars

\* Rows for two tickers answered from the cache, some time after they were kept.
C9_Witness ==
    /\ pc = "render"
    /\ Len(tickers) = 2
    /\ downloads = <<>>
    /\ results # <<>>
    /\ tickers \in DOMAIN cache
    /\ now > cache[tickers].stamp

\* ------------------------------------------------------------ C10
C10_ErrorKept ==
    DownloadRaised =>
        /\ tickers \in DOMAIN cache'
        /\ cache'[tickers] = [stamp |-> now, value |-> <<>>, error |-> TRUE]

C10_NoRetryWhileFresh ==
    (pc = "call" /\ tickers \in DOMAIN cache /\ cache[tickers].error
        /\ now - cache[tickers].stamp < 60)
        => (pc' = "render" /\ results' = <<>> /\ downloads' = <<>>)

C10_RetryOnlyWhenGone ==
    (pc = "download" /\ tickers \in DOMAIN cache) => now - cache[tickers].stamp >= 60

\* C10: the empty result of a failed download is kept like any other: within
\* 60 seconds and without a refresh, a later run for the same list makes no
\* download and gets zero rows again; the download is retried only once the
\* entry is 60 seconds old or the cache was cleared.
C10_FailureIsMemoized ==
    /\ [](C10_RetryOnlyWhenGone)
    /\ [][C10_ErrorKept]_vars
    /\ [][C10_NoRetryWhileFresh]_vars

\* A later run answered by the entry a failed download left: no call, no rows.
C10_Witness ==
    /\ pc = "render"
    /\ downloads = <<>>
    /\ tickers \in DOMAIN cache
    /\ cache[tickers].error
    /\ now > cache[tickers].stamp
    /\ results = <<>>
    /\ "error" \in messages

====
